---- MODULE Spec2Model ----
(***************************************************************************)
(* State-machine model of primitiv's MemoryPool (core/memory_pool.cc) and  *)
(* of the CPU device (cpu_device.cc): tensor creation and deletion, leak   *)
(* detection at teardown and the batch-broadcasting arithmetic kernels.    *)
(*                                                                         *)
(* SpecPool   drives one MemoryPool through allocate / free /              *)
(*            release_reserved_blocks / destruction, against an            *)
(*            underlying allocator that may fail and may hand out again    *)
(*            any address it has got back through the deleter.             *)
(* SpecDevice drives one CPUDevice through new_tensor / delete_tensor /    *)
(*            destruction, against std::malloc and std::free.              *)
(* SpecKernel applies one binary tensor kernel to a device that holds two  *)
(*            operand tensors drawn from bounded shapes and contents.      *)
(*                                                                         *)
(* Sizes above 2^63, for which allocate throws the invalid-size error, and *)
(* the wrap-around of the unsigned mem_size lie outside the bounds.        *)
(***************************************************************************)
EXTENDS Integers, Sequences, FiniteSets, TLC

\* ------------------------------------------------------------------ bounds
\* Number of distinct addresses the underlying allocator can hand out.
NumPtrs == 2
\* Largest size passed to MemoryPool::allocate.
MaxSize == 2
\* Largest minimum_size the pool is constructed with.
MaxMinimumSize == 2

\* Number of distinct addresses std::malloc can return.
NumDevPtrs == 3
\* Largest dimension of a tensor operand.
MaxDim == 2
\* Largest batch size of a tensor operand.
MaxBatch == 3
\* Number of distinct value sequences a tensor is filled from.
MaxFill == 2

\* ------------------------------------------------------- program constants
\* static const std::uint64_t MAX_SHIFTS = 63;
MAX_SHIFTS == 63

\* sizeof(float)
SizeofFloat == 4

NullPtr == 0
Ptrs == 1..NumPtrs
DevPtrs == 1..NumDevPtrs
Shifts == 0..MAX_SHIFTS
\* value of an absent bucket exponent in the call record
NoShift == 0 - 1

VARIABLES
  \* ---- MemoryPool
  reserved_,       \* std::vector<std::vector<void *>>, one stack per exponent
  supplied_,       \* std::unordered_map<void *, std::uint32_t>
  minimum_size_,   \* std::size_t
  poolAlive,       \* FALSE once ~MemoryPool has run
  \* ---- the allocator_/deleter_ pair the pool was constructed with
  heap,            \* addresses handed out by allocator_ and not yet deleted
  badDelete,       \* deleter_ was invoked on an address that was not live
  \* ---- observation of the last pool call
  pres,            \* record of the last call: arguments, result, error
  liveFreed,       \* history: the exponent recorded for an address at its
                   \* latest free, NoShift if it was never freed or has been
                   \* passed to deleter_ since
  \* ---- CPUDevice
  blocks_,         \* std::map<void *, unsigned>: tracked block -> mem_size
  devState,        \* "alive", "destroyed" (normal teardown) or "aborted"
  \* ---- std::malloc / std::free and the memory they manage
  dheap,           \* addresses returned by malloc and not yet freed
  mem,             \* contents of the live blocks: address -> floats
  \* ---- the Tensor objects the caller holds
  tensors,         \* data address -> Shape of the tensor that owns the block
  \* ---- observation of the last device call
  dres

poolVars == <<reserved_, supplied_, minimum_size_, poolAlive, heap, badDelete,
              pres, liveFreed>>

devVars == <<blocks_, devState, dheap, mem, tensors, dres>>

vars == <<reserved_, supplied_, minimum_size_, poolAlive, heap, badDelete,
          pres, liveFreed, blocks_, devState, dheap, mem, tensors, dres>>

\* --------------------------------------------------------------- helpers
Last(s) == s[Len(s)]
Front(s) == SubSeq(s, 1, Len(s) - 1)
SeqRange(s) == {s[i] : i \in 1..Len(s)}
MapErase(m, k) == [x \in (DOMAIN m) \ {k} |-> m[x]]
MapPut(m, k, v) == [x \in (DOMAIN m) \cup {k} |-> IF x = k THEN v ELSE m[x]]
EmptyMap == [x \in {} |-> 0]

\* numeric_utils::calculate_shifts: the exponent of the next power of two,
\* ceil(log2(size)); 0 for sizes 0 and 1.
RECURSIVE calculate_shifts(_)
calculate_shifts(x) ==
  IF x <= 1 THEN 0 ELSE 1 + calculate_shifts((x + 1) \div 2)

\* size < minimum_size_ ? minimum_size_ : size
RoundedSize(size, minimum) == IF size < minimum THEN minimum ELSE size

\* reserved_[shift].back()
ReservedBackWrong(r, shift) == r[shift][1]
ReservedBack(r, shift) == Last(r[shift])

\* reserved_[shift].pop_back()
ReservedPopNothing(r, shift) == r
ReservedPop(r, shift) == [r EXCEPT ![shift] = Front(@)]

\* reserved_[shift].emplace_back(ptr)
ReservedPushTwice(r, shift, ptr) == [r EXCEPT ![shift] = Append(Append(@, ptr), ptr)]
ReservedPush(r, shift, ptr) == [r EXCEPT ![shift] = Append(@, ptr)]

\* supplied_.emplace(ptr, shift): emplace keeps an existing entry
SuppliedEmplace(s, ptr, shift) ==
  IF ptr \in DOMAIN s THEN s ELSE MapPut(s, ptr, shift)

\* supplied_.erase(it)
SuppliedErase(s, ptr) == MapErase(s, ptr)

\* it->second of the entry found in free(): the bucket the block goes back to
FreeBucketZero(s, ptr) == 0
FreeBucket(s, ptr) == s[ptr]

\* every pointer held in some reserved_ bucket
NonEmptyBuckets(r) == {k \in DOMAIN r : r[k] # <<>>}
ReservedPtrs(r) == UNION {SeqRange(r[k]) : k \in NonEmptyBuckets(r)}

\* number of entries of the reserved_ buckets that hold ptr
Occurrences(r, ptr) ==
  Cardinality({ki \in UNION {{<<k, i>> : i \in 1..Len(r[k])} : k \in NonEmptyBuckets(r)} :
                 r[ki[1]][ki[2]] = ptr})

\* release_reserved_blocks(): the buckets afterwards (every one drained)
ReleaseOnlyBucketZero(r) == [r EXCEPT ![0] = <<>>]
ReleaseReserved(r) == [k \in DOMAIN r |-> <<>>]

\* release_reserved_blocks(): deleter_(ptrs.back()) once per entry popped;
\* the number of deleter_ calls each address receives
DeleterCalls(r) ==
  LET after == ReleaseReserved(r)
  IN  [p \in Ptrs |-> Occurrences(r, p) - Occurrences(after, p)]

\* deleter_: the allocator's live set after the calls, and whether some call
\* was on an address that was not live at that moment (a double delete)
HeapAfterDelete(h, calls) == {p \in h : calls[p] = 0}
BadDelete(h, calls) ==
  \E p \in Ptrs : calls[p] > 1 \/ (calls[p] > 0 /\ p \notin h)
TotalCalls(calls) ==
  LET RECURSIVE Sum(_)
      Sum(S) == IF S = {} THEN 0
                ELSE LET p == CHOOSE q \in S : TRUE IN calls[p] + Sum(S \ {p})
  IN  Sum(Ptrs)

\* ~MemoryPool, lines 29-31: while (!supplied_.empty()) free(begin()->first).
\* The iteration order of the unordered_map is unspecified; every order
\* leaves the same set of pointers in each bucket.
DtorKeepSupplied(r, s) == [reserved |-> r, supplied |-> s]
RECURSIVE DtorForceFree(_, _)
DtorForceFree(r, s) ==
  IF DOMAIN s = {} THEN [reserved |-> r, supplied |-> s]
  ELSE LET p == CHOOSE q \in DOMAIN s : TRUE
       IN  DtorForceFree(ReservedPush(r, FreeBucket(s, p), p), SuppliedErase(s, p))

\* the record of one pool call
\* op: the call; arg: the pointer passed to free; ret: the pointer returned by
\* allocate; shift: the bucket exponent used; err: the error thrown;
\* ncalls: calls of allocator_ made; ndel: calls of deleter_ made;
\* nforced: calls of free made by the destructor
PRes(op, size, arg, ret, shift, err, ncalls, ndel) ==
  [op |-> op, arg |-> arg, ret |-> ret, shift |-> shift,
   err |-> err, ncalls |-> ncalls, ndel |-> ndel, nforced |-> 0]

ClearFreed(f, calls) == [p \in Ptrs |-> IF calls[p] > 0 THEN NoShift ELSE f[p]]

\* ------------------------------------------------------------- CPUDevice
\* helpers

\* Shape: the non-batch dimensions and the batch size
Shape(dims, batch) == [dims |-> dims, batch |-> batch]

\* Shape::size() / batch_size(): the product of the dimensions
RECURSIVE Volume(_)
Volume(dims) == IF dims = <<>> THEN 1 ELSE Head(dims) * Volume(Tail(dims))

\* Shape::size()
ShapeSize(shape) == Volume(shape.dims) * shape.batch

\* const unsigned mem_size = sizeof(float) * shape.size();
MemSize(shape) == SizeofFloat * ShapeSize(shape)

\* A float is modelled as the exact rational <<numerator, denominator>> with
\* a positive denominator, in lowest terms; rounding is not modelled.
RECURSIVE Gcd(_, _)
Gcd(x, y) == IF y = 0 THEN x ELSE Gcd(y, x % y)
Abs(x) == IF x < 0 THEN 0 - x ELSE x
Rat(n, d) == LET g == Gcd(Abs(n), d) IN <<n \div g, d \div g>>
FloatOf(n) == <<n, 1>>
\* the value of a float that was never written (malloc does not initialise)
Indeterminate == <<0, 0>>

\* src_a[i] + src_b[i], - , * , / (the divisor is never zero in the inputs
\* drawn here)
FAdd(x, y) == Rat(x[1] * y[2] + y[1] * x[2], x[2] * y[2])
FSub(x, y) == Rat(x[1] * y[2] - y[1] * x[2], x[2] * y[2])
FMul(x, y) == Rat(x[1] * y[1], x[2] * y[2])
FDiv(x, y) ==
  IF y[1] < 0 THEN Rat((0 - x[1]) * y[2], x[2] * (0 - y[1]))
  ELSE Rat(x[1] * y[2], x[2] * y[1])
Apply(op, x, y) ==
  CASE op = "add" -> FAdd(x, y)
    [] op = "subtract" -> FSub(x, y)
    [] op = "multiply" -> FMul(x, y)
    [] op = "divide" -> FDiv(x, y)

\* blocks_.insert(std::make_pair(data, mem_size)): keeps an existing entry
BlocksInsertNothing(b, data, mem_size) == b
BlocksInsert(b, data, mem_size) ==
  IF data \in DOMAIN b THEN b ELSE MapPut(b, data, mem_size)

\* blocks_.erase(it)
BlocksEraseAll(b, data) == EmptyMap
BlocksEraseNothing(b, data) == b
BlocksErase(b, data) == MapErase(b, data)

\* the record of one device call.  op: the call; a, b: the data addresses of
\* the operand tensors; ret: the data address of the tensor returned;
\* size: the mem_size of the block concerned; err: the error thrown;
\* nmalloc, nfree: calls of std::malloc and std::free made;
\* reported: the blocks the destructor printed; nvalues: the length of the
\* values the call was given, NoValues when it takes none
NoValues == 0 - 1
DRes(op, a, b, ret, size, err, nmalloc, nfree) ==
  [op |-> op, a |-> a, b |-> b, ret |-> ret, size |-> size, err |-> err,
   nmalloc |-> nmalloc, nfree |-> nfree, reported |-> EmptyMap,
   nvalues |-> NoValues]
DResValues(r, values) == [r EXCEPT !.nvalues = Len(values)]

\* no device has been constructed
NoDevice ==
  /\ blocks_ = EmptyMap
  /\ devState = "none"
  /\ dheap = {}
  /\ mem = EmptyMap
  /\ tensors = EmptyMap
  /\ dres = DRes("none", NullPtr, NullPtr, NullPtr, 0, "none", 0, 0)

\* no pool has been constructed
NoPool ==
  /\ reserved_ = [k \in Shifts |-> <<>>]
  /\ supplied_ = EmptyMap
  /\ minimum_size_ = 0
  /\ poolAlive = FALSE
  /\ heap = {}
  /\ badDelete = FALSE
  /\ pres = PRes("none", 0, NullPtr, NullPtr, NoShift, "none", 0, 0)
  /\ liveFreed = [p \in Ptrs |-> NoShift]

\* ------------------------------------------------------------ MemoryPool
\* MemoryPool::MemoryPool
NewPool ==
  /\ reserved_ = [k \in Shifts |-> <<>>]
  /\ supplied_ = EmptyMap
  /\ minimum_size_ \in 1..MaxMinimumSize
  /\ poolAlive = TRUE
  /\ heap = {}
  /\ badDelete = FALSE
  /\ pres = PRes("construct", 0, NullPtr, NullPtr, NoShift, "none", 0, 0)
  /\ liveFreed = [p \in Ptrs |-> NoShift]

\* MemoryPool::allocate, size == 0: returns an empty shared_ptr
AllocateZero ==
  /\ poolAlive
  /\ pres' = PRes("allocate", 0, NullPtr, NullPtr, NoShift, "none", 0, 0)
  /\ UNCHANGED <<reserved_, supplied_, minimum_size_, poolAlive, heap,
                 badDelete, liveFreed, devVars>>

\* MemoryPool::allocate, reserved_[shift] non-empty: returns an existing block
AllocateReuse(size) ==
  LET shift == calculate_shifts(RoundedSize(size, minimum_size_))
  IN  /\ poolAlive
      /\ size # 0
      /\ IF shift > MAX_SHIFTS
         THEN /\ pres' = PRes("allocate", size, NullPtr, NullPtr, NoShift,
                              "invalid_size", 0, 0)
              /\ UNCHANGED <<reserved_, supplied_>>
         ELSE /\ reserved_[shift] # <<>>
              /\ LET ptr == ReservedBack(reserved_, shift)
                 IN  /\ reserved_' = ReservedPop(reserved_, shift)
                     /\ supplied_' = SuppliedEmplace(supplied_, ptr, shift)
                     /\ pres' = PRes("allocate", size, NullPtr, ptr, shift,
                                     "none", 0, 0)
      /\ UNCHANGED <<minimum_size_, poolAlive, heap, badDelete, liveFreed, devVars>>

\* MemoryPool::allocate, reserved_[shift] empty, allocator_ succeeds at once
AllocateNew(size) ==
  LET shift == calculate_shifts(RoundedSize(size, minimum_size_))
  IN  /\ poolAlive
      /\ size # 0
      /\ shift <= MAX_SHIFTS
      /\ reserved_[shift] = <<>>
      /\ \E ptr \in Ptrs \ heap :
           /\ heap' = heap \cup {ptr}
           /\ supplied_' = SuppliedEmplace(supplied_, ptr, shift)
           /\ pres' = PRes("allocate", size, NullPtr, ptr, shift, "none", 1, 0)
      /\ UNCHANGED <<reserved_, minimum_size_, poolAlive, badDelete, liveFreed, devVars>>

\* MemoryPool::allocate, reserved_[shift] empty, allocator_ throws: the catch
\* block releases every reserved block and calls allocator_ once more; that
\* call returns a block or throws out of allocate
AllocateRetry(size) ==
  LET shift == calculate_shifts(RoundedSize(size, minimum_size_))
      calls == DeleterCalls(reserved_)
      heap1 == HeapAfterDelete(heap, calls)
  IN  /\ poolAlive
      /\ size # 0
      /\ shift <= MAX_SHIFTS
      /\ reserved_[shift] = <<>>
      /\ reserved_' = ReleaseReserved(reserved_)
      /\ badDelete' = (badDelete \/ BadDelete(heap, calls))
      /\ liveFreed' = ClearFreed(liveFreed, calls)
      /\ \/ \E ptr \in Ptrs \ heap1 :
              /\ heap' = heap1 \cup {ptr}
              /\ supplied_' = SuppliedEmplace(supplied_, ptr, shift)
              /\ pres' = PRes("allocate", size, NullPtr, ptr, shift, "none",
                              2, TotalCalls(calls))
         \/ /\ heap' = heap1
            /\ supplied_' = supplied_
            /\ pres' = PRes("allocate", size, NullPtr, NullPtr, shift,
                            "alloc_failed", 2, TotalCalls(calls))
      /\ UNCHANGED <<minimum_size_, poolAlive, devVars>>

\* MemoryPool::free
Free(ptr) ==
  /\ poolAlive
  /\ IF ptr \notin DOMAIN supplied_
     THEN /\ pres' = PRes("free", 0, ptr, NullPtr, NoShift, "unknown_handle", 0, 0)
          /\ UNCHANGED <<reserved_, supplied_, liveFreed>>
     ELSE LET shift == FreeBucket(supplied_, ptr)
          IN  /\ reserved_' = ReservedPush(reserved_, shift, ptr)
              /\ supplied_' = SuppliedErase(supplied_, ptr)
              /\ liveFreed' = [liveFreed EXCEPT ![ptr] = supplied_[ptr]]
              /\ pres' = PRes("free", 0, ptr, NullPtr, shift, "none", 0, 0)
  /\ UNCHANGED <<minimum_size_, poolAlive, heap, badDelete, devVars>>

\* MemoryPool::release_reserved_blocks
ReleaseReservedBlocks ==
  LET calls == DeleterCalls(reserved_)
  IN  /\ poolAlive
      /\ reserved_' = ReleaseReserved(reserved_)
      /\ heap' = HeapAfterDelete(heap, calls)
      /\ badDelete' = (badDelete \/ BadDelete(heap, calls))
      /\ liveFreed' = ClearFreed(liveFreed, calls)
      /\ pres' = PRes("release_reserved_blocks", 0, NullPtr, NullPtr, NoShift,
                      "none", 0, TotalCalls(calls))
      /\ UNCHANGED <<supplied_, minimum_size_, poolAlive, devVars>>

\* MemoryPool::~MemoryPool
DestroyPool ==
  LET freed == DtorForceFree(reserved_, supplied_)
      calls == DeleterCalls(freed.reserved)
  IN  /\ poolAlive
      /\ poolAlive' = FALSE
      /\ supplied_' = freed.supplied
      /\ reserved_' = ReleaseReserved(freed.reserved)
      /\ heap' = HeapAfterDelete(heap, calls)
      /\ badDelete' = (badDelete \/ BadDelete(heap, calls))
      /\ liveFreed' = ClearFreed(liveFreed, calls)
      /\ pres' = [PRes("destroy", 0, NullPtr, NullPtr, NoShift, "none", 0,
                       TotalCalls(calls))
                  EXCEPT !.nforced = Cardinality(DOMAIN supplied_)]
      /\ UNCHANGED <<minimum_size_, devVars>>

NextPool ==
  \/ AllocateZero
  \/ \E size \in 1..MaxSize : AllocateReuse(size)
  \/ \E size \in 1..MaxSize : AllocateNew(size)
  \/ \E size \in 1..MaxSize : AllocateRetry(size)
  \/ \E ptr \in Ptrs : Free(ptr)
  \/ ReleaseReservedBlocks
  \/ DestroyPool

\* a pool on its own: no device is constructed
InitPool == NewPool /\ NoDevice

SpecPool == InitPool /\ [][NextPool]_vars

TypeOKPool ==
  /\ DOMAIN supplied_ \subseteq Ptrs
  /\ \A p \in DOMAIN supplied_ : supplied_[p] \in Shifts
  /\ heap \subseteq Ptrs
  /\ minimum_size_ \in 1..MaxMinimumSize

\* ------------------------------------------------------------ MemoryPool
\* properties

\* C1: pointer partition.  In every reachable state every block obtained
\* from the allocator and not yet passed to the deleter (heap) is either a
\* key of supplied_ or an entry of a reserved_ bucket, no pointer is both, and
\* no pointer occurs twice in the buckets (neither in two buckets nor twice
\* in one); nothing else is tracked.
C1_PointerPartition ==
  /\ heap = (DOMAIN supplied_) \cup ReservedPtrs(reserved_)
  /\ (DOMAIN supplied_) \cap ReservedPtrs(reserved_) = {}
  /\ \A p \in Ptrs : Occurrences(reserved_, p) <= 1
  /\ \A p \in Ptrs :
       Cardinality({k \in NonEmptyBuckets(reserved_) : p \in SeqRange(reserved_[k])}) <= 1

\* a block is supplied while another one is reserved
C1_Witness ==
  /\ pres.op = "free"
  /\ pres.err = "none"
  /\ DOMAIN supplied_ # {}
  /\ ReservedPtrs(reserved_) # {}

\* C2: reuse.  An allocate whose bucket reserved_[shift] is non-empty returns
\* the most recently freed pointer of that bucket (its last entry) without
\* calling the allocator; in particular allocate directly after a successful
\* free(p), for a size of the bucket p was freed into, returns p.
C2_Reuse ==
  [][ /\ (/\ pres'.op = "allocate"
          /\ pres'.shift \in Shifts
          /\ reserved_[pres'.shift] # <<>>)
         => /\ pres'.err = "none"
            /\ pres'.ret = reserved_[pres'.shift][Len(reserved_[pres'.shift])]
            /\ pres'.ncalls = 0
            /\ heap' = heap
      /\ (/\ pres.op = "free"
          /\ pres.err = "none"
          /\ pres'.op = "allocate"
          /\ pres'.shift = pres.shift)
         => /\ pres'.ret = pres.arg
            /\ pres'.ncalls = 0
    ]_vars

\* an allocate took a block from a bucket that held two blocks
C2_Witness ==
  /\ pres.op = "allocate"
  /\ pres.ncalls = 0
  /\ pres.ret # NullPtr
  /\ reserved_[pres.shift] # <<>>

\* C3 as stated: a pointer that was freed at bucket exponent k (before the
\* call) is never returned by an allocate whose request maps to another
\* exponent, over any sequence of allocate, free and release_reserved_blocks.
C3_Original ==
  [][ (/\ pres'.op = "allocate"
       /\ pres'.ret # NullPtr
       /\ liveFreed[pres'.ret] # NoShift)
      => liveFreed[pres'.ret] = pres'.shift
    ]_vars

\* C3 amended: a pointer freed at bucket exponent k is not returned by an
\* allocate whose request maps to another exponent for as long as the block
\* has not been passed to the deleter since that free.
C3_BucketIsolation ==
  (pres.op = "allocate" /\ pres.ret # NullPtr /\ liveFreed[pres.ret] # NoShift)
    => liveFreed[pres.ret] = pres.shift

\* an allocate returned a freed block while another bucket held a block
C3_Witness ==
  /\ pres.op = "allocate"
  /\ pres.ret # NullPtr
  /\ liveFreed[pres.ret] = pres.shift
  /\ \E k \in NonEmptyBuckets(reserved_) : k # pres.shift

\* C4: no double tracking.  free(ptr) on a pointer that is not a key of
\* supplied_ signals the unknown-handle error and changes neither supplied_
\* nor any reserved_ bucket; a second free(p) right after a valid free(p)
\* signals the error and p is held exactly once, in the bucket it was freed
\* into.
C4_NoDoubleTracking ==
  [][ /\ (pres'.op = "free" /\ pres'.arg \notin DOMAIN supplied_)
         => /\ pres'.err = "unknown_handle"
            /\ supplied_' = supplied_
            /\ reserved_' = reserved_
      /\ (pres'.op = "free" /\ pres'.arg \in DOMAIN supplied_)
         => /\ pres'.err = "none"
            /\ Occurrences(reserved_', pres'.arg) = 1
      /\ (/\ pres.op = "free"
          /\ pres.err = "none"
          /\ pres'.op = "free"
          /\ pres'.arg = pres.arg)
         => /\ pres'.err = "unknown_handle"
            /\ Occurrences(reserved_', pres.arg) = 1
            /\ pres.arg \in SeqRange(reserved_'[pres.shift])
            /\ pres.arg \notin DOMAIN supplied_'
    ]_vars

\* a free of a pointer that is already back in a bucket was rejected
C4_Witness ==
  /\ pres.op = "free"
  /\ pres.err = "unknown_handle"
  /\ pres.arg \in ReservedPtrs(reserved_)

\* C5: out-of-memory retry.  An allocate that calls the allocator twice (the
\* first call failed on an empty bucket) has passed every reserved block of
\* every bucket to the deleter, leaves all buckets empty and calls the
\* allocator no third time; if the retry succeeds the call returns the new
\* pointer without error, recorded in supplied_ at its exponent, and if it
\* fails the error propagates and supplied_ is as before the call.  No other
\* allocate deletes a block or fails with the allocation error.
C5_OomRetry ==
  [][ pres'.op = "allocate" =>
        /\ pres'.ncalls \in {0, 1, 2}
        /\ pres'.ncalls = 2 =>
             /\ reserved_[pres'.shift] = <<>>
             /\ ReservedPtrs(reserved_') = {}
             /\ pres'.ndel = Cardinality(ReservedPtrs(reserved_))
             /\ heap' \ {pres'.ret} = heap \ ReservedPtrs(reserved_)
             /\ pres'.err \in {"none", "alloc_failed"}
             /\ pres'.err = "none" =>
                  /\ pres'.ret \in Ptrs
                  /\ pres'.ret \in heap'
                  /\ pres'.ret \notin DOMAIN supplied_
                  /\ DOMAIN supplied_' = (DOMAIN supplied_) \cup {pres'.ret}
                  /\ supplied_'[pres'.ret] = pres'.shift
                  /\ \A p \in DOMAIN supplied_ : supplied_'[p] = supplied_[p]
             /\ pres'.err = "alloc_failed" =>
                  /\ pres'.ret = NullPtr
                  /\ supplied_' = supplied_
        /\ pres'.ncalls # 2 =>
             /\ pres'.ndel = 0
             /\ pres'.err # "alloc_failed"
    ]_vars

\* both allocator calls failed after reserved blocks had been released, with
\* a block still supplied
C5_Witness ==
  /\ pres.op = "allocate"
  /\ pres.err = "alloc_failed"
  /\ pres.ncalls = 2
  /\ pres.ndel >= 1
  /\ DOMAIN supplied_ # {}

\* C6: teardown.  Destroying the pool signals no error, force-frees every
\* pointer still in supplied_, drains all buckets, and leaves supplied_ and
\* all buckets empty with every block obtained from the allocator passed to
\* the deleter exactly once: one deleter call per live block at teardown,
\* none live afterwards, and never a call on a block that is not live.
C6_Teardown ==
  [][ /\ ~badDelete'
      /\ pres'.op = "destroy" =>
           /\ pres'.err = "none"
           /\ DOMAIN supplied_' = {}
           /\ NonEmptyBuckets(reserved_') = {}
           /\ heap' = {}
           /\ pres'.nforced = Cardinality(DOMAIN supplied_)
           /\ pres'.ndel = Cardinality(heap)
    ]_vars

\* a pool was destroyed while one block was supplied and another reserved
C6_Witness ==
  /\ ~poolAlive
  /\ pres.op = "destroy"
  /\ pres.nforced >= 1
  /\ pres.ndel > pres.nforced

\* ------------------------------------------------------------- CPUDevice
\* inputs

\* dimensions of the operands: a scalar, or one dimension of length 2..MaxDim
KernelDims == {<<>>} \cup {<<d>> : d \in 2..MaxDim}
KernelShapes == {Shape(dims, batch) : dims \in KernelDims, batch \in 1..MaxBatch}

\* the value sequences tensors are filled from: f, 2f, 3f, ...
Pattern(f, n) == [i \in 1..n |-> FloatOf(f * i)]

\* shapes and value sequences of the tensors created in the life-cycle runs
DeviceShapes == {Shape(<<MaxDim>>, 1), Shape(<<>>, MaxBatch)}
DeviceValues == {Pattern(1, ShapeSize(shape)) : shape \in DeviceShapes}

\* ------------------------------------------------------------- CPUDevice
\* CPUDevice::CPUDevice
NewDevice ==
  /\ blocks_ = EmptyMap
  /\ devState = "alive"
  /\ dheap = {}
  /\ mem = EmptyMap
  /\ tensors = EmptyMap
  /\ dres = DRes("construct", NullPtr, NullPtr, NullPtr, 0, "none", 0, 0)

\* CPUDevice::new_tensor(const Shape &): std::malloc returns NULL
NewTensorFail(shape) ==
  /\ devState = "alive"
  /\ dres' = DRes("new_tensor", NullPtr, NullPtr, NullPtr, MemSize(shape),
                  "alloc_failed", 1, 0)
  /\ UNCHANGED <<blocks_, devState, dheap, mem, tensors, poolVars>>

\* CPUDevice::new_tensor(const Shape &): the block is not initialised
NewTensor(shape) ==
  /\ devState = "alive"
  /\ \E data \in DevPtrs \ dheap :
       /\ dheap' = dheap \cup {data}
       /\ blocks_' = BlocksInsert(blocks_, data, MemSize(shape))
       /\ mem' = MapPut(mem, data, [i \in 1..ShapeSize(shape) |-> Indeterminate])
       /\ tensors' = MapPut(tensors, data, shape)
       /\ dres' = DRes("new_tensor", NullPtr, NullPtr, data, MemSize(shape),
                       "none", 1, 0)
  /\ UNCHANGED <<devState, poolVars>>

\* Tensor::~Tensor of a tensor that owns a block: hands the block back with
\* Device::delete_tensor (lines 57-67)
TensorDtorBlocks(b, data) == BlocksErase(b, data)

\* CPUDevice::new_tensor(const Shape &, const std::vector<float> &):
\* new_tensor(shape), then reset_tensor(ret, values), which throws when the
\* sizes differ; the local tensor ret is then destroyed by the unwinding
NewTensorValues(shape, values) ==
  /\ devState = "alive"
  /\ \/ /\ dres' = DResValues(DRes("new_tensor", NullPtr, NullPtr, NullPtr,
                                    MemSize(shape), "alloc_failed", 1, 0), values)
        /\ UNCHANGED <<blocks_, dheap, mem, tensors>>
     \/ \E data \in DevPtrs \ dheap :
          LET tracked == BlocksInsert(blocks_, data, MemSize(shape))
          IN  IF Len(values) # ShapeSize(shape)
              THEN /\ blocks_' = TensorDtorBlocks(tracked, data)
                   /\ dres' = DResValues(DRes("new_tensor", NullPtr, NullPtr, NullPtr,
                                              MemSize(shape), "data_size", 1, 1),
                                         values)
                   /\ UNCHANGED <<dheap, mem, tensors>>
              ELSE /\ blocks_' = tracked
                   /\ dheap' = dheap \cup {data}
                   /\ mem' = MapPut(mem, data, values)
                   /\ tensors' = MapPut(tensors, data, shape)
                   /\ dres' = DResValues(DRes("new_tensor", NullPtr, NullPtr, data,
                                              MemSize(shape), "none", 1, 0), values)
  /\ UNCHANGED <<devState, poolVars>>

\* CPUDevice::delete_tensor; data is x.data()
DeleteTensor(data) ==
  /\ devState = "alive"
  /\ IF data \notin DOMAIN blocks_
     THEN /\ dres' = DRes("delete_tensor", data, NullPtr, NullPtr, 0,
                          "unknown_handle", 0, 0)
          /\ UNCHANGED <<blocks_, dheap, mem, tensors>>
     ELSE /\ blocks_' = BlocksErase(blocks_, data)
          /\ dheap' = dheap \ {data}
          /\ mem' = MapErase(mem, data)
          /\ tensors' = MapErase(tensors, data)
          /\ dres' = DRes("delete_tensor", data, NullPtr, NullPtr,
                          blocks_[data], "none", 0, 1)
  /\ UNCHANGED <<devState, poolVars>>

\* CPUDevice::~CPUDevice: reports the tracked blocks and aborts, or returns
DestroyDevice ==
  /\ devState = "alive"
  /\ IF DOMAIN blocks_ # {}
     THEN /\ devState' = "aborted"
          /\ dres' = [DRes("destroy", NullPtr, NullPtr, NullPtr, 0, "leak", 0, 0)
                        EXCEPT !.reported = blocks_]
     ELSE /\ devState' = "destroyed"
          /\ dres' = DRes("destroy", NullPtr, NullPtr, NullPtr, 0, "none", 0, 0)
  /\ UNCHANGED <<blocks_, dheap, mem, tensors, poolVars>>

InitDevice == NewDevice /\ NoPool

NextDevice ==
  \/ \E shape \in DeviceShapes : NewTensorFail(shape)
  \/ \E shape \in DeviceShapes : NewTensor(shape)
  \/ \E shape \in DeviceShapes, values \in DeviceValues : NewTensorValues(shape, values)
  \/ \E data \in DevPtrs : DeleteTensor(data)
  \/ DestroyDevice

SpecDevice == InitDevice /\ [][NextDevice]_vars

\* ------------------------------------------------------------- CPUDevice
\* life-cycle properties

C8_DeleteTensor ==
  [][ dres'.op = "delete_tensor" =>
        IF dres'.a \notin DOMAIN blocks_
        THEN /\ dres'.err = "unknown_handle"
             /\ blocks_' = blocks_
        ELSE /\ dres'.err = "none"
             /\ DOMAIN blocks_' = (DOMAIN blocks_) \ {dres'.a}
             /\ \A p \in DOMAIN blocks_' : blocks_'[p] = blocks_[p]
    ]_vars

\* a delete_tensor of an untracked block was rejected while another block
\* was tracked
C8_Witness ==
  /\ dres.op = "delete_tensor"
  /\ dres.err = "unknown_handle"
  /\ DOMAIN blocks_ # {}

\* C9: device storage goes through the MemoryPool.  delete_tensor keeps the
\* block for reuse instead of releasing it to the underlying allocator, and a
\* new_tensor right after a delete_tensor of a block of the same size makes
\* no underlying allocation.
C9_PoolBackedStorage ==
  [][ /\ (dres'.op = "delete_tensor" /\ dres'.err = "none")
         => (dres'.nfree = 0 /\ dheap' = dheap)
      /\ (/\ dres.op = "delete_tensor"
          /\ dres.err = "none"
          /\ dres'.op = "new_tensor"
          /\ dres'.err = "none"
          /\ dres'.size = dres.size)
         => dres'.nmalloc = 0
    ]_vars

\* --------------------------------------------------------------- kernels
\* CHECK_DEVICE(x): a default-constructed tensor (NullPtr) has no device
CheckDevice(x) == x \in DOMAIN tensors

\* lines 188-194: equal batch sizes
KernelSame(op, A, B, size) == [j \in 1..size |-> Apply(op, A[j], B[j])]

\* lines 195-204: a has batch size 1; src_b and dest advance by ms per batch
KernelBroadcastANoAdvance(op, A, B, ms, bs) ==
  [j \in 1..(ms * bs) |-> Apply(op, A[((j - 1) % ms) + 1], B[((j - 1) % ms) + 1])]
KernelBroadcastA(op, A, B, ms, bs) ==
  [j \in 1..(ms * bs) |-> Apply(op, A[((j - 1) % ms) + 1], B[j])]

\* lines 205-214: b has batch size 1; src_a and dest advance by ms per batch
KernelBroadcastB(op, A, B, ms, bs) ==
  [j \in 1..(ms * bs) |-> Apply(op, A[j], B[((j - 1) % ms) + 1])]

\* the body shared by add, subtract, multiply and divide on two tensors,
\* which differ in the operator applied only; a and b are the data addresses
\* of the operands.  One kernel is applied to the operands drawn.
BinaryKernel(op, a, b) ==
  /\ devState = "alive"
  /\ dres.op = "operands"
  /\ IF ~CheckDevice(a) \/ ~CheckDevice(b)
     THEN /\ dres' = DRes(op, a, b, NullPtr, 0, "device_mismatch", 0, 0)
          /\ UNCHANGED <<blocks_, dheap, mem, tensors>>
     ELSE
       LET sa == tensors[a]
           sb == tensors[b]
       IN  IF /\ sa.dims = sb.dims
              /\ (sa.batch = sb.batch \/ sa.batch = 1 \/ sb.batch = 1)
           THEN
             LET shape == IF sa.batch = sb.batch THEN sa
                          ELSE IF sa.batch = 1 THEN sb ELSE sa
                 dest == IF sa.batch = sb.batch
                           THEN KernelSame(op, mem[a], mem[b], ShapeSize(sa))
                         ELSE IF sa.batch = 1
                           THEN KernelBroadcastA(op, mem[a], mem[b],
                                                 ShapeSize(sa), sb.batch)
                         ELSE KernelBroadcastB(op, mem[a], mem[b],
                                               ShapeSize(sb), sa.batch)
             IN  \/ /\ dres' = DRes(op, a, b, NullPtr, MemSize(shape),
                                    "alloc_failed", 1, 0)
                    /\ UNCHANGED <<blocks_, dheap, mem, tensors>>
                 \/ \E data \in DevPtrs \ dheap :
                      /\ dheap' = dheap \cup {data}
                      /\ blocks_' = BlocksInsert(blocks_, data, MemSize(shape))
                      /\ mem' = MapPut(mem, data, dest)
                      /\ tensors' = MapPut(tensors, data, shape)
                      /\ dres' = DRes(op, a, b, data, MemSize(shape), "none", 1, 0)
           ELSE /\ dres' = DRes(op, a, b, NullPtr, 0, "shape_mismatch", 0, 0)
                /\ UNCHANGED <<blocks_, dheap, mem, tensors>>
  /\ UNCHANGED <<devState, poolVars>>

\* CPUDevice::add(const Tensor &, const Tensor &)
Add(a, b) == BinaryKernel("add", a, b)
\* CPUDevice::subtract(const Tensor &, const Tensor &)
Subtract(a, b) == BinaryKernel("subtract", a, b)
\* CPUDevice::multiply(const Tensor &, const Tensor &)
Multiply(a, b) == BinaryKernel("multiply", a, b)
\* CPUDevice::divide(const Tensor &, const Tensor &)
Divide(a, b) == BinaryKernel("divide", a, b)

\* lines 600-621: the shapes add_gradient accepts; the three branches test
\* equal batch sizes, sa.batch_size() == 1 and sb.batch_size() == 1 in turn
GradShapesAcceptedEqualBatch(sa, sb) == sa.dims = sb.dims /\ sa.batch = sb.batch
GradShapesAccepted(sa, sb) ==
  /\ sa.dims = sb.dims
  /\ (sa.batch = sb.batch \/ sa.batch = 1 \/ sb.batch = 1)

\* lines 601-605: a += b, element by element; dest and src may be the same
\* block, and dest[i] += src[i] then reads the element it is about to write
GradSame(D, S, size) == [j \in 1..size |-> FAdd(D[j], S[j])]

\* lines 606-613: a += batch_sum(b); the value of dest[i] after the slices
\* k, k + 1, ..., bs - 1 of src were added to x in that order
RECURSIVE GradSumSlices(_, _, _, _, _, _)
GradSumSlices(x, S, i, ms, k, bs) ==
  IF k >= bs THEN x
  ELSE GradSumSlices(FAdd(x, S[k * ms + i]), S, i, ms, k + 1, bs)

GradReduceFirstSlice(D, S, ms, bs) ==
  [j \in 1..ms |-> GradSumSlices(D[j], [n \in 1..(ms * bs) |-> S[((n - 1) % ms) + 1]],
                                 j, ms, 0, bs)]
GradReduce(D, S, ms, bs) ==
  [j \in 1..ms |-> GradSumSlices(D[j], S, j, ms, 0, bs)]

\* lines 614-621: a += batch_broadcast(b); dest advances by ms per batch
GradBroadcast(D, S, ms, bs) ==
  [j \in 1..(ms * bs) |-> FAdd(D[j], S[((j - 1) % ms) + 1])]

\* CPUDevice::add_gradient(Tensor &, const Tensor &); a and b are the data
\* addresses of dest and src.  Nothing is allocated; dest is written in place.
AddGradient(a, b) ==
  /\ devState = "alive"
  /\ dres.op = "operands"
  /\ IF ~CheckDevice(a) \/ ~CheckDevice(b)
     THEN /\ dres' = DRes("add_gradient", a, b, NullPtr, 0, "device_mismatch", 0, 0)
          /\ UNCHANGED mem
     ELSE
       LET sa == tensors[a]
           sb == tensors[b]
       IN  IF GradShapesAccepted(sa, sb)
           THEN
             LET dest == IF sa.batch = sb.batch
                           THEN GradSame(mem[a], mem[b], ShapeSize(sa))
                         ELSE IF sa.batch = 1
                           THEN GradReduce(mem[a], mem[b], ShapeSize(sa), sb.batch)
                         ELSE GradBroadcast(mem[a], mem[b], ShapeSize(sb), sa.batch)
             IN  /\ mem' = [mem EXCEPT ![a] = dest]
                 /\ dres' = DRes("add_gradient", a, b, NullPtr, 0, "none", 0, 0)
           ELSE /\ dres' = DRes("add_gradient", a, b, NullPtr, 0,
                                "shape_mismatch", 0, 0)
                /\ UNCHANGED mem
  /\ UNCHANGED <<blocks_, devState, dheap, tensors, poolVars>>

\* A device holding two tensors, created by new_tensor(shape, values) at the
\* addresses 1 and 2: the operands of the kernel call.
InitKernel ==
  /\ NoPool
  /\ devState = "alive"
  /\ dheap = {1, 2}
  /\ dres = DRes("operands", NullPtr, NullPtr, NullPtr, 0, "none", 0, 0)
  /\ \E s1 \in KernelShapes, s2 \in KernelShapes, f1 \in 1..MaxFill, f2 \in 1..MaxFill :
       /\ tensors = (1 :> s1) @@ (2 :> s2)
       /\ blocks_ = (1 :> MemSize(s1)) @@ (2 :> MemSize(s2))
       /\ mem = (1 :> Pattern(f1, ShapeSize(s1))) @@ (2 :> Pattern(f2, ShapeSize(s2)))

Operands == {NullPtr, 1, 2}

NextKernel ==
  \/ \E a \in Operands, b \in Operands : Add(a, b)
  \/ \E a \in Operands, b \in Operands : Subtract(a, b)
  \/ \E a \in Operands, b \in Operands : Multiply(a, b)
  \/ \E a \in Operands, b \in Operands : Divide(a, b)
  \/ \E a \in Operands, b \in Operands : AddGradient(a, b)

SpecKernel == InitKernel /\ [][NextKernel]_vars

BinaryOps == {"add", "subtract", "multiply", "divide"}
Max(x, y) == IF x < y THEN y ELSE x

\* C10: batch broadcast.  For add, subtract, multiply and divide on tensors
\* a and b of the device with equal dims of volume m and batch sizes that are
\* equal or of which one is 1, the call allocates a new tensor with those
\* dims and batch size max(a.batch, b.batch) whose element i of slice k is
\* op(a[ka*m + i], b[kb*m + i]), ka = k if a.batch > 1 else 0 and kb likewise,
\* a on the left and b on the right, and leaves a and b as they were; only a
\* failing malloc prevents it.
C10_BatchBroadcast ==
  [][ (/\ dres'.op \in BinaryOps
       /\ dres'.a \in DOMAIN tensors
       /\ dres'.b \in DOMAIN tensors
       /\ tensors[dres'.a].dims = tensors[dres'.b].dims
       /\ \/ tensors[dres'.a].batch = tensors[dres'.b].batch
          \/ tensors[dres'.a].batch = 1
          \/ tensors[dres'.b].batch = 1)
      => LET a == dres'.a
             b == dres'.b
             r == dres'.ret
             m == Volume(tensors[a].dims)
             bs == Max(tensors[a].batch, tensors[b].batch)
         IN  /\ dres'.err \in {"none", "alloc_failed"}
             /\ dres'.err = "none" =>
                  /\ r \in DevPtrs
                  /\ r \notin DOMAIN tensors
                  /\ tensors'[r] = Shape(tensors[a].dims, bs)
                  /\ Len(mem'[r]) = m * bs
                  /\ \A k \in 0..(bs - 1), i \in 0..(m - 1) :
                       LET ka == IF tensors[a].batch > 1 THEN k ELSE 0
                           kb == IF tensors[b].batch > 1 THEN k ELSE 0
                       IN  mem'[r][k * m + i + 1] =
                             Apply(dres'.op, mem[a][ka * m + i + 1],
                                   mem[b][kb * m + i + 1])
                  /\ mem'[a] = mem[a]
                  /\ mem'[b] = mem[b]
                  /\ tensors'[a] = tensors[a]
                  /\ tensors'[b] = tensors[b]
    ]_vars

\* a batch-1 tensor of volume 2 or more was added to a tensor of the largest
\* batch size
C10_Witness ==
  /\ dres.op = "add"
  /\ dres.err = "none"
  /\ dres.a # dres.b
  /\ tensors[dres.a].batch = 1
  /\ tensors[dres.b].batch = MaxBatch
  /\ Volume(tensors[dres.a].dims) >= 2
  /\ tensors[dres.ret].batch = MaxBatch

\* -------------------------------------------------- shape-mismatch rejection
TensorKernels == BinaryOps \cup {"add_gradient"}

\* C11: shape-mismatch rejection.  add, subtract, multiply, divide and
\* add_gradient on two tensors of the device signal the shape mismatch exactly
\* when the dims differ, or the dims are equal and the batch sizes differ with
\* neither equal to 1; the call then allocates nothing, the tracked blocks
\* are the same as before and no tensor's contents or shape changed.
C11_ShapeMismatch ==
  [][ (/\ dres'.op \in TensorKernels
       /\ dres'.a \in DOMAIN tensors
       /\ dres'.b \in DOMAIN tensors)
      => LET sa == tensors[dres'.a]
             sb == tensors[dres'.b]
             mismatch == \/ sa.dims # sb.dims
                         \/ /\ sa.batch # sb.batch
                            /\ sa.batch # 1
                            /\ sb.batch # 1
         IN  /\ (dres'.err = "shape_mismatch") <=> mismatch
             /\ mismatch =>
                  /\ dres'.nmalloc = 0
                  /\ dres'.ret = NullPtr
                  /\ blocks_' = blocks_
                  /\ dheap' = dheap
                  /\ mem' = mem
                  /\ tensors' = tensors
    ]_vars

\* add_gradient was rejected on two tensors of equal dims with the batch
\* sizes 2 and 3
C11_Witness ==
  /\ dres.op = "add_gradient"
  /\ dres.err = "shape_mismatch"
  /\ dres.a \in DOMAIN tensors
  /\ dres.b \in DOMAIN tensors
  /\ tensors[dres.a].dims = tensors[dres.b].dims
  /\ tensors[dres.a].batch = 2
  /\ tensors[dres.b].batch = 3
  /\ DOMAIN blocks_ = {1, 2}

\* ------------------------------------------------- gradient accumulation
\* the sum of the elements i of the slices 0 .. B - 1 of S, slices of m
\* elements each (i counts from 1)
RECURSIVE C12_SliceSum(_, _, _, _)
C12_SliceSum(S, i, m, B) ==
  IF B = 0 THEN FloatOf(0)
  ELSE FAdd(C12_SliceSum(S, i, m, B - 1), S[(B - 1) * m + i])

\* add_gradient(dest, src) was called on two tensors of the device with equal
\* dims and batch sizes that are equal or of which one is 1
C12_Called ==
  /\ dres'.op = "add_gradient"
  /\ dres'.a \in DOMAIN tensors
  /\ dres'.b \in DOMAIN tensors
  /\ tensors[dres'.a].dims = tensors[dres'.b].dims
  /\ \/ tensors[dres'.a].batch = tensors[dres'.b].batch
     \/ tensors[dres'.a].batch = 1
     \/ tensors[dres'.b].batch = 1

\* what the call leaves in dest, in terms of the contents before the call,
\* with nothing allocated and every shape kept
C12_Accumulated ==
  LET a == dres'.a
      b == dres'.b
      m == Volume(tensors[a].dims)
      Ba == tensors[a].batch
      Bb == tensors[b].batch
  IN  /\ dres'.err = "none"
      /\ dres'.nmalloc = 0
      /\ dres'.ret = NullPtr
      /\ blocks_' = blocks_
      /\ dheap' = dheap
      /\ tensors' = tensors
      /\ DOMAIN mem' = DOMAIN mem
      /\ Len(mem'[a]) = m * Ba
      /\ IF Ba = Bb
         THEN \A j \in 1..(m * Ba) : mem'[a][j] = FAdd(mem[a][j], mem[b][j])
         ELSE IF Ba = 1
         THEN \A i \in 1..m :
                mem'[a][i] = FAdd(mem[a][i], C12_SliceSum(mem[b], i, m, Bb))
         ELSE \A k \in 0..(Ba - 1), i \in 1..m :
                mem'[a][k * m + i] = FAdd(mem[a][k * m + i], mem[b][i])

\* C12 as stated: the accumulation, with src left unmodified in every case
C12_Original ==
  [][ C12_Called => (C12_Accumulated /\ mem'[dres'.b] = mem[dres'.b]) ]_vars

\* C12: gradient accumulation is an in-place batch-reduce.  add_gradient(dest,
\* src) with equal dims of volume m adds src elementwise when the batch sizes
\* are equal, adds to dest[i] the sum over k of src[k*m + i] when dest has
\* batch size 1 and src has B > 1, and adds src[i] to every slice of dest when
\* src has batch size 1; it allocates nothing, keeps the tracked blocks and
\* every shape, and leaves every tensor other than dest unmodified; src is
\* unmodified unless it is dest itself, which the call doubles.
C12_GradientAccumulation ==
  [][ C12_Called =>
        /\ C12_Accumulated
        /\ \A p \in (DOMAIN mem) \ {dres'.a} : mem'[p] = mem[p]
        /\ (dres'.a = dres'.b) =>
             \A j \in 1..Len(mem[dres'.a]) :
               mem'[dres'.a][j] = FMul(FloatOf(2), mem[dres'.a][j])
    ]_vars

\* add_gradient summed a src of the largest batch size, with slices of two
\* or more elements, into a dest of batch size 1
C12_Witness ==
  /\ dres.op = "add_gradient"
  /\ dres.err = "none"
  /\ dres.a \in DOMAIN tensors
  /\ dres.b \in DOMAIN tensors
  /\ dres.a # dres.b
  /\ tensors[dres.a].batch = 1
  /\ tensors[dres.b].batch = MaxBatch
  /\ Volume(tensors[dres.a].dims) >= 2
  /\ tensors[dres.a].dims = tensors[dres.b].dims

\* ------------------------------------------------- failed construction
\* C13: failed construction leaves no tracked block.  new_tensor(shape,
\* values) with a values sequence whose length differs from shape.size()
\* signals the data-size error (unless std::malloc failed first), returns no
\* tensor and leaves the tracked blocks, and the tensors alive, as they were
\* before the call; a device destroyed right after such a call with no tensor
\* alive tears down normally instead of reporting a leak.
C13_FailedConstruction ==
  [][ /\ (/\ dres'.op = "new_tensor"
          /\ dres'.nvalues # NoValues
          /\ SizeofFloat * dres'.nvalues # dres'.size)
         => /\ dres'.err \in {"data_size", "alloc_failed"}
            /\ dres'.ret = NullPtr
            /\ blocks_' = blocks_
            /\ tensors' = tensors
            /\ mem' = mem
            /\ dheap' = dheap
      /\ (/\ dres'.op = "new_tensor"
          /\ dres'.nvalues # NoValues
          /\ SizeofFloat * dres'.nvalues = dres'.size)
         => dres'.err \in {"none", "alloc_failed"}
      /\ (/\ dres.op = "new_tensor"
          /\ dres.err = "data_size"
          /\ DOMAIN tensors = {}
          /\ dres'.op = "destroy")
         => (devState' = "destroyed" /\ dres'.err = "none")
    ]_vars

\* a new_tensor(shape, values) that allocated its block failed with the
\* data-size error while the device tracked the block of another tensor
C13_Witness ==
  /\ dres.op = "new_tensor"
  /\ dres.err = "data_size"
  /\ dres.nmalloc = 1
  /\ SizeofFloat * dres.nvalues # dres.size
  /\ Cardinality(DOMAIN blocks_) = 1
  /\ DOMAIN blocks_ = DOMAIN tensors

====
